---- MODULE Spec2Model ----
(***************************************************************************)
(* Model of src/app.ts of cloudwatch-logs-management: the log shipping     *)
(* handler shipLogEntries with its line parsers and enrichment, and the    *)
(* subscription handler setLogShipping.                                    *)
(*                                                                         *)
(* JavaScript strings are sequences of one-character strings, so that      *)
(* startsWith, indexOf, substr, split and trim are computed as the code    *)
(* computes them.  JavaScript values are records of one shape (JsValue).   *)
(* Objects are functions from property name to value; key order is not     *)
(* modelled except for the supplemental fields, whose Object.keys order    *)
(* drives the enrichment loop.                                             *)
(***************************************************************************)
EXTENDS Integers, Sequences, FiniteSets

VARIABLES
    pc,              \* position of the shipLogEntries invocation
    payload,         \* what event.awslogs.data holds
    logGroup,        \* decoded.logGroup
    logEvents,       \* decoded.logEvents
    fetchCalls,      \* number of getStructuredFields calls issued
    fetchFailed,     \* the .catch handler of the lookup ran
    extraFields,     \* the awaited supplemental mapping, as a sequence of [k, v]
    structuredLogs,  \* records built so far by the map callback
    published,       \* argument of each putKinesisRecords call, in order
    failure,         \* which stage rejected the invocation, "" if none
    call,            \* a direct call of createStructuredLog: position
    callEvent,       \* its logEvent argument
    callFields,      \* its extraFields argument
    callParsed,      \* result of parseLambdaLogLine in that call
    callResult,      \* record returned by that call
    spc,             \* position of the setLogShipping invocation
    lambdaArn,       \* logShippingLambdaArn of the configuration
    logNamePrefixes, \* logNamePrefixes of the configuration
    groupsInAccount, \* what getCloudWatchLogGroups returns (environment)
    allGroups,       \* the awaited list of log group names
    subscribed,      \* argument of each subscribeGroups call
    unsubscribed     \* argument of each unsubscribeGroups call

vars == <<pc, payload, logGroup, logEvents, fetchCalls, fetchFailed,
          extraFields, structuredLogs, published, failure,
          call, callEvent, callFields, callParsed, callResult,
          spc, lambdaArn, logNamePrefixes, groupsInAccount, allGroups,
          subscribed, unsubscribed>>

shipVars == <<pc, payload, logGroup, logEvents, fetchCalls, fetchFailed,
              extraFields, structuredLogs, published, failure>>
callVars == <<call, callEvent, callFields, callParsed, callResult>>
shippingVars == <<spc, lambdaArn, logNamePrefixes, groupsInAccount, allGroups,
                  subscribed, unsubscribed>>

----------------------------------------------------------------------------
(* String primitives of the JavaScript runtime, on sequences of characters *)

MinOf(S) == CHOOSE x \in S : \A y \in S : x <= y
MaxOf(S) == CHOOSE x \in S : \A y \in S : y <= x
MinOrElse(S, none) == IF S = {} THEN none ELSE MinOf(S)

IsWhitespace(c) == c \in {" ", "\t", "\n", "\r"}

\* String.prototype.trim
TrimTo(s, keep) == IF keep = {} THEN <<>> ELSE SubSeq(s, MinOf(keep), MaxOf(keep))
Trim(s) == TrimTo(s, {i \in 1..Len(s) : ~IsWhitespace(s[i])})

\* String.prototype.startsWith
StartsWith(s, prefix) ==
    Len(s) >= Len(prefix) /\ SubSeq(s, 1, Len(prefix)) = prefix

\* String.prototype.indexOf: 0-based, -1 when absent
IndexOf(s, needle) ==
    MinOrElse({i \in 0..(Len(s) - Len(needle)) : SubSeq(s, i + 1, i + Len(needle)) = needle}, -1)

\* String.prototype.substr(start, length) for start >= 0
Substr(s, start, length) ==
    SubSeq(s, start + 1, IF start + length < Len(s) THEN start + length ELSE Len(s))

\* String.prototype.substr(start) / slice(start) for start >= 0
SubstrFrom(s, start) == SubSeq(s, start + 1, Len(s))

\* String.prototype.split with a one-character separator
RECURSIVE Split(_, _)
\* the split of s whose first separator is at position i (0: none)
SplitAt(s, sep, i) ==
    IF i = 0 THEN <<s>>
    ELSE <<SubSeq(s, 1, i - 1)>> \o Split(SubSeq(s, i + 1, Len(s)), sep)
Split(s, sep) == SplitAt(s, sep, MinOrElse({i \in 1..Len(s) : s[i] = sep}, 0))

\* Array.prototype.join with a one-character separator
RECURSIVE Join(_, _)
Join(parts, sep) ==
    IF parts = <<>> THEN <<>>
    ELSE IF Len(parts) = 1 THEN parts[1]
    ELSE parts[1] \o <<sep>> \o Join(Tail(parts), sep)

\* Array.prototype.map
MapSeq(Op(_), xs) == [i \in 1..Len(xs) |-> Op(xs[i])]

UpperCaseLetters == <<"A", "B", "C", "D", "E", "F", "G", "H", "I", "J", "K", "L", "M", "N", "O", "P", "Q", "R", "S", "T", "U", "V", "W", "X", "Y", "Z">>
LowerCaseLetters == <<"a", "b", "c", "d", "e", "f", "g", "h", "i", "j", "k", "l", "m", "n", "o", "p", "q", "r", "s", "t", "u", "v", "w", "x", "y", "z">>

\* String.prototype.toLowerCase on one character (ASCII letters)
ToLowerCase(c) ==
    IF \E i \in 1..Len(UpperCaseLetters) : UpperCaseLetters[i] = c
    THEN LowerCaseLetters[CHOOSE i \in 1..Len(UpperCaseLetters) : UpperCaseLetters[i] = c]
    ELSE c

DigitChars == <<"0", "1", "2", "3", "4", "5", "6", "7", "8", "9">>
IsDigit(c) == \E i \in 1..10 : DigitChars[i] = c
DigitValue(c) == (CHOOSE i \in 1..10 : DigitChars[i] = c) - 1

\* value of a run of digits
RECURSIVE DigitsValue(_)
DigitsValue(ds) ==
    IF ds = <<>> THEN 0 ELSE DigitsValue(SubSeq(ds, 1, Len(ds) - 1)) * 10 + DigitValue(ds[Len(ds)])

\* the longest run of digits of s that starts at position i (1-based)
DigitRun(s, i) ==
    SubSeq(s, i, MinOrElse({j \in i..Len(s) : ~IsDigit(s[j])}, Len(s) + 1) - 1)

\* n >= 0 in decimal, left-padded with zeros to width characters
RECURSIVE Pad(_, _)
Pad(n, width) ==
    IF width = 0 THEN <<>> ELSE Pad(n \div 10, width - 1) \o <<DigitChars[(n % 10) + 1]>>

\* n >= 0 in decimal
Decimal(n) == IF n < 10 THEN Pad(n, 1) ELSE IF n < 100 THEN Pad(n, 2) ELSE Pad(n, 3)

----------------------------------------------------------------------------
(* JavaScript values.  t is the type tag; s the characters of a string;    *)
(* m, e a number m * 10^-e (e decimals, no trailing zero decimal); b a     *)
(* boolean; o the properties of an object.                                 *)

NoProps == [k \in {} |-> 0]

JsString(s)  == [t |-> "string",  s |-> s,    m |-> 0, e |-> 0, b |-> FALSE, o |-> NoProps]
JsNaN        == [t |-> "NaN",     s |-> <<>>, m |-> 0, e |-> 0, b |-> FALSE, o |-> NoProps]
JsBool(b)    == [t |-> "boolean", s |-> <<>>, m |-> 0, e |-> 0, b |-> b,     o |-> NoProps]
JsNull       == [t |-> "null",    s |-> <<>>, m |-> 0, e |-> 0, b |-> FALSE, o |-> NoProps]
JsObject(o)  == [t |-> "object",  s |-> <<>>, m |-> 0, e |-> 0, b |-> FALSE, o |-> o]

\* a number from its mantissa and count of decimals, in canonical form
RECURSIVE JsNumber(_, _)
JsNumber(m, e) ==
    IF e > 0 /\ m % 10 = 0 THEN JsNumber(m \div 10, e - 1)
    ELSE [t |-> "number", s |-> <<>>, m |-> m, e |-> e, b |-> FALSE, o |-> NoProps]

\* ToBoolean: the falsy values are "", 0, NaN, false, null (and undefined)
Truthy(v) ==
    CASE v.t = "string"  -> v.s # <<>>
      [] v.t = "number"  -> v.m # 0
      [] v.t = "boolean" -> v.b
      [] v.t = "object"  -> TRUE
      [] OTHER           -> FALSE

\* obj[key] = value
Put(o, key, value) == [k \in (DOMAIN o) \cup {key} |-> IF k = key THEN value ELSE o[k]]

\* key in obj (own property)
Has(o, key) == key \in DOMAIN o

\* !!obj[key]: a missing property reads as undefined, which is falsy
TruthyAt(o, key) == Has(o, key) /\ Truthy(o[key])

\* the own enumerable properties ToObject(v) has: those of an object, the
\* indexed characters of a string, none for a number or a boolean
PropsOf(v) ==
    CASE v.t = "object" -> v.o
      [] v.t = "string" -> [k \in {Decimal(i - 1) : i \in 1..Len(v.s)} |->
                               JsString(<<v.s[DigitsValue(k) + 1]>>)]
      [] OTHER          -> NoProps

\* the decimals that follow a "." at position dot of s, if any
DecimalsAt(s, dot) ==
    IF dot <= Len(s) /\ s[dot] = "." THEN DigitRun(s, dot + 1) ELSE <<>>

\* the number whose digits are int before and frac after the point
FloatOf(negative, int, frac) ==
    IF int = <<>> /\ frac = <<>> THEN JsNaN
    ELSE JsNumber((IF negative THEN -1 ELSE 1) * DigitsValue(int \o frac), Len(frac))

FloatWithInt(s, from, int) == FloatOf(s[1] = "-", int, DecimalsAt(s, from + Len(int)))
FloatFrom(s, from) == FloatWithInt(s, from, DigitRun(s, from))
FloatOfTrimmed(s) ==
    IF s = <<>> THEN JsNaN ELSE FloatFrom(s, IF s[1] \in {"-", "+"} THEN 2 ELSE 1)

\* parseFloat: optional sign, digits, optional decimals; NaN when no digit
\* leads.  Exponents and Infinity are not recognised here.
ParseFloat(str) == FloatOfTrimmed(Trim(str))

----------------------------------------------------------------------------
(* JSON.parse on the grammar of objects, strings without escapes, numbers  *)
(* without exponent, true, false and null.  A parse step returns           *)
(* [ok, val, pos]: whether a value was read, the value, and the position   *)
(* after it.  Arrays are outside this grammar.                             *)

JsonFail == [ok |-> FALSE, val |-> JsNull, pos |-> 0]
JsonRead(v, p) == [ok |-> TRUE, val |-> v, pos |-> p]

\* first position >= i that holds no JSON whitespace
SkipWs(s, i) == MinOrElse({j \in i..Len(s) : ~IsWhitespace(s[j])}, Len(s) + 1)

\* the string that opens at position i of s and closes at position j (0:
\* it does not close)
JsonStringTo(s, i, j) ==
    IF j = 0 THEN JsonFail
    ELSE IF \E k \in (i + 1)..(j - 1) : s[k] \in {"\\", "\n", "\t", "\r"} THEN JsonFail
    ELSE JsonRead(JsString(SubSeq(s, i + 1, j - 1)), j + 1)

ParseJsonString(s, i) ==
    IF i > Len(s) \/ s[i] # "\"" THEN JsonFail
    ELSE JsonStringTo(s, i, MinOrElse({j \in (i + 1)..Len(s) : s[j] = "\""}, 0))

\* the number of s with integer digits int from position from on, a point
\* at position dot (hasDot) and decimals frac
JsonNumberOf(s, negative, int, hasDot, frac, end) ==
    IF int = <<>> \/ (Len(int) > 1 /\ int[1] = "0") \/ (hasDot /\ frac = <<>>) THEN JsonFail
    ELSE IF end <= Len(s) /\ s[end] \in {"e", "E"} THEN JsonFail
    ELSE JsonRead(JsNumber((IF negative THEN -1 ELSE 1) * DigitsValue(int \o frac), Len(frac)), end)

JsonNumberAt(s, negative, int, dot) ==
    IF dot <= Len(s) /\ s[dot] = "."
    THEN JsonNumberOf(s, negative, int, TRUE, DigitRun(s, dot + 1), dot + 1 + Len(DigitRun(s, dot + 1)))
    ELSE JsonNumberOf(s, negative, int, FALSE, <<>>, dot)

JsonNumberFrom(s, negative, from, int) == JsonNumberAt(s, negative, int, from + Len(int))

ParseJsonNumber(s, i) ==
    IF s[i] = "-" THEN JsonNumberFrom(s, TRUE, i + 1, DigitRun(s, i + 1))
    ELSE JsonNumberFrom(s, FALSE, i, DigitRun(s, i))

JsonLiteralOf(rest, i) ==
    CASE StartsWith(rest, <<"n", "u", "l", "l">>)  -> JsonRead(JsNull, i + 4)
      [] StartsWith(rest, <<"t", "r", "u", "e">>)  -> JsonRead(JsBool(TRUE), i + 4)
      [] StartsWith(rest, <<"f", "a", "l", "s", "e">>) -> JsonRead(JsBool(FALSE), i + 5)
      [] OTHER -> JsonFail

ParseJsonLiteral(s, i) == JsonLiteralOf(SubstrFrom(s, i - 1), i)

RECURSIVE ParseJsonValue(_, _), ParseJsonMembers(_, _, _)

\* after the members read so far (props) and the character at position next
JsonAfterMember(s, props, next) ==
    IF next > Len(s) THEN JsonFail
    ELSE IF s[next] = "}" THEN JsonRead(JsObject(props), next + 1)
    ELSE IF s[next] = "," THEN ParseJsonMembers(s, SkipWs(s, next + 1), props)
    ELSE JsonFail

\* the member with key read as key and value read as val
JsonMemberValue(s, props, key, val) ==
    IF ~val.ok THEN JsonFail
    ELSE JsonAfterMember(s, Put(props, key.val.s, val.val), SkipWs(s, val.pos))

\* the member with key read as key, its colon expected at position colon
JsonMemberColon(s, props, key, colon) ==
    IF ~key.ok \/ colon > Len(s) \/ s[colon] # ":" THEN JsonFail
    ELSE JsonMemberValue(s, props, key, ParseJsonValue(s, SkipWs(s, colon + 1)))

JsonMemberKey(s, props, key) ==
    IF ~key.ok THEN JsonFail ELSE JsonMemberColon(s, props, key, SkipWs(s, key.pos))

\* the members of an object from position i on, added to props; a repeated
\* key keeps the last value
ParseJsonMembers(s, i, props) == JsonMemberKey(s, props, ParseJsonString(s, i))

\* the object whose first non-blank character after "{" is at position j
JsonObjectFrom(s, j) ==
    IF j <= Len(s) /\ s[j] = "}" THEN JsonRead(JsObject(NoProps), j + 1)
    ELSE ParseJsonMembers(s, j, NoProps)

ParseJsonValue(s, i) ==
    IF i > Len(s) THEN JsonFail
    ELSE IF s[i] = "\"" THEN ParseJsonString(s, i)
    ELSE IF s[i] = "-" \/ IsDigit(s[i]) THEN ParseJsonNumber(s, i)
    ELSE IF s[i] = "{" THEN JsonObjectFrom(s, SkipWs(s, i + 1))
    ELSE ParseJsonLiteral(s, i)

\* JSON.parse(text): [ok, val]; ok = FALSE stands for the SyntaxError thrown
JsonWhole(text, r) == IF r.ok /\ SkipWs(text, r.pos) = Len(text) + 1 THEN r ELSE JsonFail
JsonParse(text) == JsonWhole(text, ParseJsonValue(text, SkipWs(text, 1)))

----------------------------------------------------------------------------
(* Date.parse and Date.prototype.toISOString.  An epoch-millisecond value   *)
(* is carried as [days, ms]: whole days since 1970-01-01 and milliseconds  *)
(* within the day (the model checker's integers are 32 bits wide).         *)

IsDigits(s, from, n) == Len(s) >= from + n - 1 /\ \A i \in from..(from + n - 1) : IsDigit(s[i])
NumAt(s, from, n) == DigitsValue(SubSeq(s, from, from + n - 1))

\* the time-of-day part "THH:mm", "THH:mm:ss" or "THH:mm:ss.sss", with an
\* optional "Z", of the ECMAScript date-time string format
IsIsoTimeBody(body) ==
    /\ Len(body) >= 6 /\ body[1] = "T" /\ IsDigits(body, 2, 2) /\ body[4] = ":"
    /\ IsDigits(body, 5, 2)
    /\ NumAt(body, 2, 2) <= 23 /\ NumAt(body, 5, 2) <= 59
    /\ \/ Len(body) = 6
       \/ /\ Len(body) >= 9 /\ body[7] = ":" /\ IsDigits(body, 8, 2)
          /\ NumAt(body, 8, 2) <= 59
          /\ \/ Len(body) = 9
             \/ Len(body) = 13 /\ body[10] = "." /\ IsDigits(body, 11, 3)

IsIsoTime(t) ==
    IsIsoTimeBody(IF t # <<>> /\ t[Len(t)] = "Z" THEN SubSeq(t, 1, Len(t) - 1) ELSE t)

\* !isNaN(Date.parse(s)) for the ECMAScript date-time string format
\* (YYYY, YYYY-MM or YYYY-MM-DD, then optionally a time).  The
\* implementation-defined legacy formats are not recognised here.
InRange(n, low, high) == low <= n /\ n <= high

IsDate(s) ==
    /\ IsDigits(s, 1, 4)
    /\ \/ Len(s) = 4
       \/ /\ Len(s) >= 7 /\ s[5] = "-" /\ IsDigits(s, 6, 2) /\ InRange(NumAt(s, 6, 2), 1, 12)
          /\ \/ Len(s) = 7
             \/ /\ Len(s) >= 10 /\ s[8] = "-" /\ IsDigits(s, 9, 2)
                /\ InRange(NumAt(s, 9, 2), 1, 31)
                /\ (Len(s) = 10 \/ IsIsoTime(SubstrFrom(s, 10)))

\* the civil date of a day count since 1970-01-01 (proleptic Gregorian)
\* by era, day of era doe, year of era yoe, day of year doy (from 1 March)
\* and month mp (from March)
CivilOfMonth(era, yoe, doy, mp) ==
    [year  |-> yoe + era * 400 + (IF mp < 10 THEN 0 ELSE 1),
     month |-> IF mp < 10 THEN mp + 3 ELSE mp - 9,
     day   |-> doy - (153 * mp + 2) \div 5 + 1]
CivilOfDayOfYear(era, yoe, doy) == CivilOfMonth(era, yoe, doy, (5 * doy + 2) \div 153)
CivilOfYearOfEra(era, doe, yoe) ==
    CivilOfDayOfYear(era, yoe, doe - (365 * yoe + yoe \div 4 - yoe \div 100))
CivilOfDayOfEra(era, doe) ==
    CivilOfYearOfEra(era, doe, (doe - doe \div 1460 + doe \div 36524 - doe \div 146096) \div 365)
CivilOfShifted(z) == CivilOfDayOfEra(z \div 146097, z % 146097)
CivilFromDays(days) == CivilOfShifted(days + 719468)

\* new Date(timestamp).toISOString(): YYYY-MM-DDTHH:mm:ss.sssZ
IsoOf(c, ms) ==
    Pad(c.year, 4) \o <<"-">> \o Pad(c.month, 2) \o <<"-">> \o Pad(c.day, 2) \o <<"T">>
    \o Pad(ms \div 3600000, 2) \o <<":">> \o Pad((ms % 3600000) \div 60000, 2) \o <<":">>
    \o Pad((ms % 60000) \div 1000, 2) \o <<".">> \o Pad(ms % 1000, 3) \o <<"Z">>

ToISOString(ts) == IsoOf(CivilFromDays(ts.days), ts.ms)

----------------------------------------------------------------------------
(* The line parsers of src/app.ts.  A function that can throw returns      *)
(* [threw, val]; undefined is the value JsUndefined.                       *)

JsUndefined == [t |-> "undefined", s |-> <<>>, m |-> 0, e |-> 0, b |-> FALSE, o |-> NoProps]

Returned(v) == [threw |-> FALSE, val |-> v]
Thrown      == [threw |-> TRUE,  val |-> JsUndefined]

RequestIdLength == 36
MinNodeLogElements == 4

isRequestLogEntry(line) ==
    \/ StartsWith(line, <<"S", "T", "A", "R", "T", " ", "R", "e", "q", "u", "e", "s", "t", "I", "d", ":", " ">>)
    \/ StartsWith(line, <<"E", "N", "D", " ", "R", "e", "q", "u", "e", "s", "t", "I", "d", ":", " ">>)
    \/ StartsWith(line, <<"R", "E", "P", "O", "R", "T", " ", "R", "e", "q", "u", "e", "s", "t", "I", "d", ":", " ">>)

\* valueLength = Len(text) stands for the omitted argument: substr then
\* runs to the end of text
fieldValue(text, fieldNameText, valueLength) ==
    Trim(Substr(text, IndexOf(text, fieldNameText) + Len(fieldNameText), valueLength))

\* rawFieldName.replace(/ /g, '') with its first character in lower case
ReportFieldNameOf(fieldNameNoSpaces) ==
    IF fieldNameNoSpaces = <<>> THEN <<>>
    ELSE <<ToLowerCase(fieldNameNoSpaces[1])>> \o SubstrFrom(fieldNameNoSpaces, 1)

ReportFieldName(rawFieldName) == ReportFieldNameOf(SelectSeq(rawFieldName, LAMBDA c : c # " "))

\* tokens is rawFieldValue.split(' '): [value, unit]
ReportFieldOf(fieldName, rawFieldValue, tokens) ==
    IF Len(tokens) >= 2 /\ (tokens[2] = <<"m", "s">> \/ tokens[2] = <<"M", "B">>)
    THEN [threw |-> FALSE, name |-> fieldName \o tokens[2], value |-> ParseFloat(tokens[1])]
    ELSE [threw |-> FALSE, name |-> fieldName, value |-> JsString(rawFieldValue)]

\* parts is rawField.split(':').map(trim): [rawFieldName, rawFieldValue]
ReportFieldOfParts(parts) ==
    IF Len(parts) < 2 THEN [threw |-> TRUE, name |-> <<>>, value |-> JsUndefined]
    ELSE ReportFieldOf(ReportFieldName(parts[1]), parts[2], Split(parts[2], " "))

\* [threw, name, value]; threw: rawFieldValue is undefined and
\* rawFieldValue.split raises a TypeError
parseReportField(rawField) == ReportFieldOfParts(MapSeq(Trim, Split(rawField, ":")))

\* fields.reduce((acc, field) => { acc[fieldName] = fieldValue; ... }, {})
RECURSIVE ReduceFields(_, _)
ReduceFields(acc, fields) ==
    IF fields = <<>> THEN acc
    ELSE ReduceFields(Put(acc, fields[1].name, fields[1].value), Tail(fields))

ReportStatsOf(fields) ==
    IF \E i \in 1..Len(fields) : fields[i].threw THEN Thrown
    ELSE Returned(JsObject(ReduceFields(NoProps, fields)))

\* the REPORT branch: [threw, val] with val the stats object
ReportStats(line) ==
    ReportStatsOf(MapSeq(parseReportField,
                         SelectSeq(MapSeq(Trim, Tail(Split(line, "\t"))), LAMBDA s : Len(s) > 0)))

\* the switch on eventName: [threw, val] with val the stats object
LambdaStats(line, eventName) ==
    CASE eventName = <<"E", "N", "D">>    -> Returned(JsObject(NoProps))
      [] eventName = <<"S", "T", "A", "R", "T">>  ->
           Returned(JsObject(Put(NoProps, <<"l", "a", "m", "b", "d", "a", "V", "e", "r", "s", "i", "o", "n">>,
                                 JsString(fieldValue(line, <<"V", "e", "r", "s", "i", "o", "n", ":">>, Len(line))))))
      [] eventName = <<"R", "E", "P", "O", "R", "T">> -> ReportStats(line)
      [] OTHER                 -> Returned(JsObject(NoProps))

\* Object.assign(base, {lambdaStats: stats})
RequestLogDataOf(eventName, requestId, stats) ==
    IF stats.threw THEN Thrown
    ELSE Returned(JsObject(Put(Put(Put(NoProps, <<"l", "a", "m", "b", "d", "a", "E", "v", "e", "n", "t">>, JsString(eventName)),
                                   <<"l", "a", "m", "b", "d", "a", "R", "e", "q", "u", "e", "s", "t", "I", "d">>, JsString(requestId)),
                               <<"l", "a", "m", "b", "d", "a", "S", "t", "a", "t", "s">>, stats.val)))

RequestLogData(line, eventName) ==
    RequestLogDataOf(eventName, fieldValue(line, <<"R", "e", "q", "u", "e", "s", "t", "I", "d", ":">>, RequestIdLength),
                     LambdaStats(line, eventName))

\* [threw, val]
lambdaRequestLogData(line) ==
    IF isRequestLogEntry(line) THEN RequestLogData(line, Substr(line, 0, IndexOf(line, <<" ">>)))
    ELSE Returned(JsUndefined)

\* parsed is the outcome of JSON.parse(text); the catch block returns
\* {message: text}
MessageJsonOf(text, parsed) ==
    IF parsed.ok THEN parsed.val ELSE JsObject(Put(NoProps, <<"m", "e", "s", "s", "a", "g", "e">>, JsString(text)))

MessageJsonOfTrimmed(text) == MessageJsonOf(text, JsonParse(text))

parseMessageJson(line) == MessageJsonOfTrimmed(Trim(line))

\* elements is line.split('\t'):
\* [dateString, lambdaRequestId, level, ...messageParts]
NodeLogOf(elements) ==
    IF Len(elements) >= MinNodeLogElements /\ IsDate(elements[1])
    THEN JsObject(Put(Put(PropsOf(parseMessageJson(Join(SubSeq(elements, 4, Len(elements)), "\t"))),
                          <<"l", "a", "m", "b", "d", "a", "R", "e", "q", "u", "e", "s", "t", "I", "d">>, JsString(elements[2])),
                      <<"l", "e", "v", "e", "l">>, JsString(elements[3])))
    ELSE JsUndefined

parseNodeLogFormat(group, line) == NodeLogOf(Split(line, "\t"))

\* lines 207-212
NodeLogOrJson(line, nodeLogData) ==
    IF Truthy(nodeLogData) THEN Returned(nodeLogData) ELSE Returned(parseMessageJson(line))

\* lines 200-205, then the rest
LogLineOf(group, line, lambdaRequestLogDataFields) ==
    IF lambdaRequestLogDataFields.threw THEN Thrown
    ELSE IF Truthy(lambdaRequestLogDataFields.val)
    THEN Returned(JsObject(Put(lambdaRequestLogDataFields.val.o, <<"m", "e", "s", "s", "a", "g", "e">>, JsString(line))))
    ELSE NodeLogOrJson(line, parseNodeLogFormat(group, line))

\* [threw, val]
parseLambdaLogLine(group, line) == LogLineOf(group, line, lambdaRequestLogData(line))

OverwrittenPrefix == <<"o", "v", "e", "r", "w", "r", "i", "t", "t", "e", "n", "F", "i", "e", "l", "d", "s", ".">>

\* one turn of the reduce callback of createStructuredLog
EnrichStep(acc, field) ==
    LET kept == IF TruthyAt(acc, field.k)
                THEN Put(acc, OverwrittenPrefix \o field.k, acc[field.k])
                ELSE acc
    IN  Put(kept, field.k, field.v)

\* Object.keys(extraFields).reduce(..., publishable); fields is the
\* mapping as the sequence of its [k, v] in Object.keys order
RECURSIVE Enrich(_, _)
Enrich(publishable, fields) ==
    IF fields = <<>> THEN publishable
    ELSE Enrich(EnrichStep(publishable, fields[1]), Tail(fields))

\* TimestampOf with `in` for `||`: any parsed timestamp is promoted, a falsy
\* one included
TimestampOfAnyParsed(props, logEvent) ==
    IF Has(props, <<"t", "i", "m", "e", "s", "t", "a", "m", "p">>) THEN props[<<"t", "i", "m", "e", "s", "t", "a", "m", "p">>]
    ELSE JsString(ToISOString(logEvent.timestamp))

\* the value of '@timestamp'
TimestampOf(props, logEvent) ==
    IF TruthyAt(props, <<"t", "i", "m", "e", "s", "t", "a", "m", "p">>) THEN props[<<"t", "i", "m", "e", "s", "t", "a", "m", "p">>]
    ELSE JsString(ToISOString(logEvent.timestamp))

\* Object.assign(structuredLog, {'@timestamp', cloudwatchId, cloudwatchLogGroup})
\* on the properties props of structuredLog
PublishableOf(group, logEvent, props) ==
    Put(Put(Put(props, <<"@", "t", "i", "m", "e", "s", "t", "a", "m", "p">>, TimestampOf(props, logEvent)),
            <<"c", "l", "o", "u", "d", "w", "a", "t", "c", "h", "I", "d">>, JsString(logEvent.id)),
        <<"c", "l", "o", "u", "d", "w", "a", "t", "c", "h", "L", "o", "g", "G", "r", "o", "u", "p">>, JsString(group))

Publishable(group, logEvent, structuredLog) == PublishableOf(group, logEvent, PropsOf(structuredLog))

\* lines 217-230 on the outcome parsed of line 216.  Reading
\* structuredLog.timestamp of null raises a TypeError.
StructuredLogOf(group, logEvent, fields, parsed) ==
    IF parsed.threw \/ parsed.val.t \in {"null", "undefined"} THEN [threw |-> TRUE, val |-> NoProps]
    ELSE [threw |-> FALSE, val |-> Enrich(Publishable(group, logEvent, parsed.val), fields)]

\* [threw, val]: val is the property map of the returned record
createStructuredLog(group, logEvent, fields) ==
    StructuredLogOf(group, logEvent, fields, parseLambdaLogLine(group, Trim(logEvent.message)))

----------------------------------------------------------------------------
(* Inputs: log events, supplemental mappings, decoded batches              *)

MaxEvents == 3

Event(id, days, ms, message) ==
    [id |-> id, timestamp |-> [days |-> days, ms |-> ms], message |-> message]

Field(k, v) == [k |-> k, v |-> JsString(v)]

LogGroupName == <<"/", "a", "w", "s", "/", "l", "a", "m", "b", "d", "a", "/", "a", "p", "p">>

\* log events a CloudWatch subscription can deliver
LifecycleEvents == {
    Event(<<"e", "0", "1">>, 19358, 0, <<"S", "T", "A", "R", "T", " ", "R", "e", "q", "u", "e", "s", "t", "I", "d", ":", " ", "1", "2", "3", "e", "4", "5", "6", "7", "-", "e", "8", "9", "b", "-", "1", "2", "d", "3", "-", "a", "4", "5", "6", "-", "4", "2", "6", "6", "1", "4", "1", "7", "4", "0", "0", "0", " ", "V", "e", "r", "s", "i", "o", "n", ":", " ", "$", "L", "A", "T", "E", "S", "T", "\n">>),
    Event(<<"e", "0", "2">>, 19358, 1, <<"E", "N", "D", " ", "R", "e", "q", "u", "e", "s", "t", "I", "d", ":", " ", "1", "2", "3", "e", "4", "5", "6", "7", "-", "e", "8", "9", "b", "-", "1", "2", "d", "3", "-", "a", "4", "5", "6", "-", "4", "2", "6", "6", "1", "4", "1", "7", "4", "0", "0", "0", "\n">>),
    Event(<<"e", "0", "3">>, 19358, 2, <<"R", "E", "P", "O", "R", "T", " ", "R", "e", "q", "u", "e", "s", "t", "I", "d", ":", " ", "a", "b", "c", "\t", "D", "u", "r", "a", "t", "i", "o", "n", ":", " ", "1", "2", "3", ".", "4", "5", " ", "m", "s", "\t", "M", "e", "m", "o", "r", "y", " ", "S", "i", "z", "e", ":", " ", "1", "2", "8", " ", "M", "B", "\t", "I", "n", "i", "t", " ", "D", "u", "r", "a", "t", "i", "o", "n", ":", " ", "0", ".", "5", "0", " ", "m", "s", "\t", "\n">>),
    Event(<<"e", "0", "4">>, 19358, 3, <<"R", "E", "P", "O", "R", "T", " ", "R", "e", "q", "u", "e", "s", "t", "I", "d", ":", " ", "a", "b", "c", "\t", "D", "u", "r", "a", "t", "i", "o", "n", ":", " ", "3", " ", "m", "s", "\t", "X", "R", "A", "Y", " ", "T", "r", "a", "c", "e", "I", "d", ":", " ", "1", "-", "5", "e", "\t", "S", "a", "m", "p", "l", "e", "d", ":", " ", "t", "r", "u", "e", "\t", "e", "n", "v", ":">>),
    Event(<<"e", "0", "5">>, 19358, 4, <<"R", "E", "P", "O", "R", "T", " ", "R", "e", "q", "u", "e", "s", "t", "I", "d", ":", " ", "a", "b", "c", "\t", "D", "u", "r", "a", "t", "i", "o", "n", ":", " ", "3", " ", "m", "s", "\t", "n", "o", "c", "o", "l", "o", "n">>),
    Event(<<"e", "0", "6">>, 19358, 5, <<"R", "E", "P", "O", "R", "T", " ", "R", "e", "q", "u", "e", "s", "t", "I", "d", ":", " ", "a", "b", "c", "\t", "D", "u", "r", "a", "t", "i", "o", "n", ":", " ", "3", " ", "m", "s", "\t", "S", "t", "a", "r", "t", "e", "d", ":", " ", "1", "2", ":", "3", "0">>) }

NodeLogEvents == {
    Event(<<"e", "0", "7">>, 19358, 6, <<"2", "0", "2", "3", "-", "0", "1", "-", "0", "1", "T", "0", "0", ":", "0", "0", ":", "0", "0", "Z", "\t", "r", "e", "q", "-", "1", "\t", "I", "N", "F", "O", "\t", "{", "\"", "a", "\"", ":", "1", "}">>),
    Event(<<"e", "0", "8">>, 19358, 7, <<"2", "0", "2", "3", "-", "0", "1", "-", "0", "1", "T", "0", "0", ":", "0", "0", ":", "0", "0", ".", "0", "0", "0", "Z", "\t", "r", "e", "q", "-", "1", "\t", "W", "A", "R", "N", "\t", "d", "i", "s", "k", "\t", "f", "u", "l", "l", "\n">>),
    Event(<<"e", "0", "9">>, 19358, 8, <<"2", "0", "2", "3", "-", "0", "1", "-", "0", "1", "\t", "r", "e", "q", "-", "2", "\t", "I", "N", "F", "O", "\t", "{", "\"", "e", "n", "v", "\"", ":", "\"", "p", "r", "o", "d", "\"", ",", "\"", "t", "i", "m", "e", "s", "t", "a", "m", "p", "\"", ":", "\"", "2", "0", "2", "2", "-", "1", "2", "-", "3", "1", "T", "2", "3", ":", "5", "9", ":", "5", "9", "Z", "\"", "}">>),
    Event(<<"e", "1", "0">>, 19358, 9, <<"2", "0", "2", "3", "-", "0", "1", "-", "0", "1", "T", "0", "0", ":", "0", "0", ":", "0", "0", "Z", "\t", "r", "e", "q", "-", "3", "\t", "I", "N", "F", "O", "\t", "n", "u", "l", "l">>),
    Event(<<"e", "1", "1">>, 19358, 10, <<"h", "e", "l", "l", "o", "\t", "r", "e", "q", "-", "1", "\t", "I", "N", "F", "O", "\t", "{", "\"", "a", "\"", ":", "1", "}">>),
    Event(<<"e", "1", "2">>, 19358, 11, <<"2", "0", "2", "3", "-", "0", "1", "-", "0", "1", "T", "0", "0", ":", "0", "0", ":", "0", "0", "Z", "\t", "r", "e", "q", "-", "1", "\t", "{", "\"", "a", "\"", ":", "1", "}">>) }

JsonEvents == {
    Event(<<"e", "1", "3">>, 0, 0, <<"{", "\"", "e", "n", "v", "\"", ":", "\"", "p", "r", "o", "d", "\"", ",", "\"", "m", "s", "g", "\"", ":", "\"", "u", "p", "\"", "}">>),
    Event(<<"e", "1", "4">>, 0, 1, <<" ", " ", "{", "\"", "e", "n", "v", "\"", ":", " ", "0", "}", " ", " ">>),
    Event(<<"e", "1", "5">>, 0, 2, <<"{", "\"", "e", "n", "v", "\"", ":", "\"", "\"", ",", "\"", "l", "e", "v", "e", "l", "\"", ":", "\"", "d", "e", "b", "u", "g", "\"", "}">>),
    Event(<<"e", "1", "6">>, 0, 3, <<"{", "\"", "e", "n", "v", "\"", ":", "f", "a", "l", "s", "e", "}">>),
    Event(<<"e", "1", "7">>, 0, 4, <<"{", "\"", "e", "n", "v", "\"", ":", "n", "u", "l", "l", ",", "\"", "o", "v", "e", "r", "w", "r", "i", "t", "t", "e", "n", "F", "i", "e", "l", "d", "s", ".", "e", "n", "v", "\"", ":", "\"", "o", "l", "d", "\"", "}">>),
    Event(<<"e", "1", "8">>, 0, 5, <<"{", "\"", "t", "i", "m", "e", "s", "t", "a", "m", "p", "\"", ":", "\"", "2", "0", "2", "2", "-", "1", "2", "-", "3", "1", "T", "2", "3", ":", "5", "9", ":", "5", "9", "Z", "\"", ",", "\"", "e", "n", "v", "\"", ":", "\"", "p", "r", "o", "d", "\"", "}">>),
    Event(<<"e", "1", "9">>, 0, 6, <<"{", "\"", "t", "i", "m", "e", "s", "t", "a", "m", "p", "\"", ":", "\"", "\"", ",", "\"", "@", "t", "i", "m", "e", "s", "t", "a", "m", "p", "\"", ":", "\"", "\"", "}">>),
    Event(<<"e", "2", "0">>, 0, 7, <<"{", "\"", "t", "i", "m", "e", "s", "t", "a", "m", "p", "\"", ":", "0", "}">>),
    Event(<<"e", "2", "1">>, 0, 8, <<"n", "u", "l", "l">>),
    Event(<<"e", "2", "2">>, 0, 9, <<"5">>),
    Event(<<"e", "2", "3">>, 0, 10, <<"\"", "u", "p", "\"">>) }

TextEvents == {
    Event(<<"e", "2", "4">>, 19358, 86399999, <<"p", "l", "a", "i", "n", " ", "t", "e", "x", "t", " ", "m", "e", "s", "s", "a", "g", "e">>),
    Event(<<"e", "2", "5">>, 19358, 12, <<"{", "\"", "e", "n", "v", "\"", ":", "\"", "p", "r", "o", "d", "\"">>),
    Event(<<"e", "2", "6">>, 19358, 13, <<"S", "T", "A", "R", "T", "E", "D", " ", "R", "e", "q", "u", "e", "s", "t", "I", "d", ":", " ", "a", "b", "c">>),
    Event(<<"e", "2", "7">>, 19358, 14, <<>>) }

AllEvents == LifecycleEvents \cup NodeLogEvents \cup JsonEvents \cup TextEvents

\* supplemental mappings of a log group, in Object.keys order
AllMappings == {
    <<>>,
    <<Field(<<"e", "n", "v">>, <<"s", "t", "a", "g", "i", "n", "g">>)>>,
    <<Field(<<"e", "n", "v">>, <<"s", "t", "a", "g", "i", "n", "g">>), Field(<<"t", "e", "a", "m">>, <<"l", "o", "g", "s">>)>>,
    <<Field(<<"@", "t", "i", "m", "e", "s", "t", "a", "m", "p">>, <<>>)>>,
    <<Field(<<"l", "e", "v", "e", "l">>, <<"n", "/", "a">>), Field(<<"@", "t", "i", "m", "e", "s", "t", "a", "m", "p">>, <<"n", "e", "v", "e", "r">>)>>,
    <<Field(<<"e", "n", "v">>, <<"s", "t", "a", "g", "i", "n", "g">>), Field(<<"o", "v", "e", "r", "w", "r", "i", "t", "t", "e", "n", "F", "i", "e", "l", "d", "s", ".", "e", "n", "v">>, <<"k", "e", "p", "t">>)>>,
    <<Field(<<"c", "l", "o", "u", "d", "w", "a", "t", "c", "h", "I", "d">>, <<"c">>)>> }

\* the events and mappings the batches of a shipLogEntries invocation draw on
BatchEvents == {e \in AllEvents : e.id \in {<<"e", "0", "1">>, <<"e", "0", "3">>, <<"e", "0", "5">>, <<"e", "0", "7">>, <<"e", "1", "3">>, <<"e", "1", "4">>, <<"e", "2", "1">>, <<"e", "2", "4">>}}
BatchMappings == {m \in AllMappings : Len(m) <= 1 \/ m[2].k = <<"t", "e", "a", "m">>}

Batches == UNION {[1..n -> BatchEvents] : n \in 0..MaxEvents}

----------------------------------------------------------------------------
(* shipLogEntries                                                          *)

IdleCall == call = "idle" /\ callEvent = Event(<<>>, 0, 0, <<>>) /\ callFields = <<>>
            /\ callParsed = Thrown /\ callResult = NoProps
IdleShipping == spc = "idle" /\ lambdaArn = <<>> /\ logNamePrefixes = <<>>
                /\ groupsInAccount = <<>> /\ allGroups = <<>>
                /\ subscribed = <<>> /\ unsubscribed = <<>>
IdleShip == pc = "idle" /\ payload = [kind |-> "none", logGroup |-> <<>>, logEvents |-> <<>>]
            /\ logGroup = <<>> /\ logEvents = <<>>
            /\ fetchCalls = 0 /\ fetchFailed = FALSE /\ extraFields = <<>>
            /\ structuredLogs = <<>> /\ published = <<>> /\ failure = ""

\* what event.awslogs.data holds: kind "ok" for a well-formed payload with
\* its log group and events, "base64", "gunzip" or "json" for one on which
\* that step of lines 234-236 throws, "schema" for a JSON document without
\* logEvents
Payloads ==
    {[kind |-> "ok", logGroup |-> LogGroupName, logEvents |-> b] : b \in Batches}
    \cup {[kind |-> k, logGroup |-> LogGroupName, logEvents |-> <<>>] :
              k \in {"base64", "gunzip", "json", "schema"}}

Init ==
    /\ pc = "start"
    /\ payload \in Payloads
    /\ logGroup = <<>> /\ logEvents = <<>>
    /\ fetchCalls = 0 /\ fetchFailed = FALSE /\ extraFields = <<>>
    /\ structuredLogs = <<>> /\ published = <<>> /\ failure = ""
    /\ IdleCall /\ IdleShipping

\* lines 234-236: base64, gunzipSync and JSON.parse are synchronous; any of
\* them throwing rejects the invocation
Decode ==
    /\ pc = "start"
    /\ IF payload.kind \in {"base64", "gunzip", "json"}
       THEN /\ pc' = "failed" /\ failure' = "decode"
            /\ UNCHANGED <<logGroup, logEvents>>
       ELSE /\ pc' = "decoded" /\ failure' = failure
            /\ logGroup' = payload.logGroup
            /\ logEvents' = payload.logEvents
    /\ UNCHANGED <<payload, fetchCalls, fetchFailed, extraFields, structuredLogs, published>>
    /\ UNCHANGED callVars /\ UNCHANGED shippingVars

\* line 242: getStructuredFields(...) is called
FetchStructuredFields ==
    /\ pc = "decoded"
    /\ pc' = "fetching"
    /\ fetchCalls' = fetchCalls + 1
    /\ UNCHANGED <<payload, logGroup, logEvents, fetchFailed, extraFields,
                   structuredLogs, published, failure>>
    /\ UNCHANGED callVars /\ UNCHANGED shippingVars

\* the awaited lookup resolves with the mapping of the log group
FetchResolves ==
    /\ pc = "fetching"
    /\ \E m \in BatchMappings : extraFields' = m
    /\ pc' = "mapping"
    /\ UNCHANGED <<payload, logGroup, logEvents, fetchCalls, fetchFailed,
                   structuredLogs, published, failure>>
    /\ UNCHANGED callVars /\ UNCHANGED shippingVars

\* lines 242-245: the lookup rejects and the catch handler returns {}
FetchRejects ==
    /\ pc = "fetching"
    /\ extraFields' = <<>>
    /\ fetchFailed' = TRUE
    /\ pc' = "mapping"
    /\ UNCHANGED <<payload, logGroup, logEvents, fetchCalls,
                   structuredLogs, published, failure>>
    /\ UNCHANGED callVars /\ UNCHANGED shippingVars

\* line 246 on a document without logEvents: decoded.logEvents.map raises
MapWithoutEvents ==
    /\ pc = "mapping" /\ payload.kind = "schema"
    /\ pc' = "failed" /\ failure' = "transform"
    /\ UNCHANGED <<payload, logGroup, logEvents, fetchCalls, fetchFailed, extraFields,
                   structuredLogs, published>>
    /\ UNCHANGED callVars /\ UNCHANGED shippingVars

\* the record the map callback appends for the next event
NextRecord == createStructuredLog(logGroup, logEvents[Len(structuredLogs) + 1], extraFields)

\* NextStructuredLogs with unshift for push: the newest record comes first
NextStructuredLogsReversed == <<NextRecord.val>> \o structuredLogs

NextStructuredLogs == Append(structuredLogs, NextRecord.val)

\* lines 246-249: one turn of decoded.logEvents.map; an exception of the
\* callback leaves map and rejects the invocation
MapLogEvent ==
    /\ pc = "mapping" /\ payload.kind = "ok"
    /\ Len(structuredLogs) < Len(logEvents)
    /\ IF NextRecord.threw
       THEN pc' = "failed" /\ failure' = "transform" /\ structuredLogs' = structuredLogs
       ELSE pc' = pc /\ failure' = failure /\ structuredLogs' = NextStructuredLogs
    /\ UNCHANGED <<payload, logGroup, logEvents, fetchCalls, fetchFailed, extraFields, published>>
    /\ UNCHANGED callVars /\ UNCHANGED shippingVars

\* PutKinesisRecords issued from inside the map: the publisher is called
\* while records are still to be built
PutKinesisRecordsEarly ==
    /\ pc = "mapping" /\ payload.kind = "ok"
    /\ published' = Append(published, structuredLogs)
    /\ pc' = IF Len(structuredLogs) = Len(logEvents) THEN "publishing" ELSE pc
    /\ UNCHANGED <<payload, logGroup, logEvents, fetchCalls, fetchFailed, extraFields,
                   structuredLogs, failure>>
    /\ UNCHANGED callVars /\ UNCHANGED shippingVars

\* line 252: putKinesisRecords(kinesis, kinesisStreamName, structuredLogs)
PutKinesisRecords ==
    /\ pc = "mapping" /\ payload.kind = "ok"
    /\ Len(structuredLogs) = Len(logEvents)
    /\ published' = Append(published, structuredLogs)
    /\ pc' = "publishing"
    /\ UNCHANGED <<payload, logGroup, logEvents, fetchCalls, fetchFailed, extraFields,
                   structuredLogs, failure>>
    /\ UNCHANGED callVars /\ UNCHANGED shippingVars

\* the awaited publisher call resolves
PublishResolves ==
    /\ pc = "publishing"
    /\ pc' = "done"
    /\ UNCHANGED <<payload, logGroup, logEvents, fetchCalls, fetchFailed, extraFields,
                   structuredLogs, published, failure>>
    /\ UNCHANGED callVars /\ UNCHANGED shippingVars

\* the awaited publisher call rejects, and so does the invocation
PublishRejects ==
    /\ pc = "publishing"
    /\ pc' = "failed" /\ failure' = "publish"
    /\ UNCHANGED <<payload, logGroup, logEvents, fetchCalls, fetchFailed, extraFields,
                   structuredLogs, published>>
    /\ UNCHANGED callVars /\ UNCHANGED shippingVars

Next ==
    \/ Decode
    \/ FetchStructuredFields
    \/ FetchResolves
    \/ FetchRejects
    \/ MapWithoutEvents
    \/ MapLogEvent
    \/ PutKinesisRecords
    \/ PublishResolves
    \/ PublishRejects

Spec == Init /\ [][Next]_vars

----------------------------------------------------------------------------
(* createStructuredLog called on one event and one mapping                 *)

InitLog ==
    /\ call = "called"
    /\ callEvent \in AllEvents
    /\ callFields \in AllMappings
    /\ callParsed = Thrown
    /\ callResult = NoProps
    /\ IdleShip /\ IdleShipping

\* line 216
ParseLine ==
    /\ call = "called"
    /\ callParsed' = parseLambdaLogLine(LogGroupName, Trim(callEvent.message))
    /\ call' = IF callParsed'.threw THEN "threw" ELSE "parsed"
    /\ UNCHANGED <<callEvent, callFields, callResult>>
    /\ UNCHANGED shipVars /\ UNCHANGED shippingVars

\* lines 217-230
BuildRecord ==
    /\ call = "parsed"
    /\ \E r \in {createStructuredLog(LogGroupName, callEvent, callFields)} :
           /\ call' = IF r.threw THEN "threw" ELSE "returned"
           /\ callResult' = r.val
    /\ UNCHANGED <<callEvent, callFields, callParsed>>
    /\ UNCHANGED shipVars /\ UNCHANGED shippingVars

NextLog == ParseLine \/ BuildRecord

SpecLog == InitLog /\ [][NextLog]_vars

----------------------------------------------------------------------------
(* setLogShipping                                                          *)

MaxGroups == 3
ArnNameIndex == 6

\* eligibleForLogShipping without the exclusion of excludeName
eligibleByPrefixOnly(prefixes, groupName, excludeName) ==
    Len(prefixes) = 0 \/ \E i \in 1..Len(prefixes) : StartsWith(groupName, prefixes[i])

eligibleForLogShipping(prefixes, groupName, excludeName) ==
    LET matchesPrefix == Len(prefixes) = 0
                         \/ \E i \in 1..Len(prefixes) : StartsWith(groupName, prefixes[i])
        isExcluded    == groupName = excludeName
    IN  matchesPrefix /\ ~isExcluded

\* line 50: logShippingLambdaArn.split(':')[6]; an index past the end reads
\* undefined, which the template of line 56 renders as "undefined"
logShippingLambdaName(arn) ==
    LET parts == Split(arn, ":")
    IN  IF Len(parts) > ArnNameIndex THEN parts[ArnNameIndex + 1] ELSE <<"u", "n", "d", "e", "f", "i", "n", "e", "d">>

\* line 56
logShippingLambdaLogGroupName(arn) == <<"/", "a", "w", "s", "/", "l", "a", "m", "b", "d", "a", "/">> \o logShippingLambdaName(arn)

\* lines 58-60
logShippingGroups(groups, prefixes, arn) ==
    SelectSeq(groups, LAMBDA g : eligibleForLogShipping(prefixes, g, logShippingLambdaLogGroupName(arn)))

\* lines 64-66
removeShippingGroups(groups, prefixes, arn) ==
    SelectSeq(groups, LAMBDA g : ~eligibleForLogShipping(prefixes, g, logShippingLambdaLogGroupName(arn)))

ShippingArns == {
    <<"a", "r", "n", ":", "a", "w", "s", ":", "l", "a", "m", "b", "d", "a", ":", "e", "u", "-", "w", "e", "s", "t", "-", "1", ":", "1", "2", "3", "4", "5", "6", "7", "8", "9", "0", "1", "2", ":", "f", "u", "n", "c", "t", "i", "o", "n", ":", "s", "h", "i", "p", "p", "e", "r">>,
    <<"a", "r", "n", ":", "a", "w", "s", ":", "l", "a", "m", "b", "d", "a", ":", "e", "u", "-", "w", "e", "s", "t", "-", "1", ":", "1", "2", "3", "4", "5", "6", "7", "8", "9", "0", "1", "2", ":", "f", "u", "n", "c", "t", "i", "o", "n", ":", "s", "h", "i", "p", "p", "e", "r", ":", "l", "i", "v", "e">>,
    <<"a", "r", "n", ":", "a", "w", "s", ":", "l", "a", "m", "b", "d", "a", ":", "e", "u", "-", "w", "e", "s", "t", "-", "1", ":", "1", "2", "3", "4", "5", "6", "7", "8", "9", "0", "1", "2", ":", "f", "u", "n", "c", "t", "i", "o", "n", ":", "a", "p", "p">> }

GroupNames == {
    <<"/", "a", "w", "s", "/", "l", "a", "m", "b", "d", "a", "/", "s", "h", "i", "p", "p", "e", "r">>,
    <<"/", "a", "w", "s", "/", "l", "a", "m", "b", "d", "a", "/", "s", "h", "i", "p", "p", "e", "r", "-", "t", "w", "o">>,
    <<"/", "a", "w", "s", "/", "l", "a", "m", "b", "d", "a", "/", "a", "p", "p">>,
    <<"/", "e", "c", "s", "/", "w", "e", "b">> }

PrefixLists == {
    <<>>,
    <<<<"/", "a", "w", "s", "/", "l", "a", "m", "b", "d", "a", "/">>>>,
    <<<<"/", "a", "w", "s", "/", "l", "a", "m", "b", "d", "a", "/", "s", "h", "i", "p", "p", "e", "r">>>>,
    <<<<"/", "e", "c", "s", "/">>, <<"/", "a", "w", "s", "/", "l", "a", "m", "b", "d", "a", "/", "a", "p", "p">>>>,
    <<<<"/", "n", "o", "n", "e", "/">>>> }

\* the log groups of an account, each name once
GroupLists ==
    {gs \in UNION {[1..n -> GroupNames] : n \in 0..MaxGroups} :
        \A i, j \in 1..Len(gs) : gs[i] = gs[j] => i = j}

InitShipping ==
    /\ spc = "start"
    /\ lambdaArn \in ShippingArns
    /\ logNamePrefixes \in PrefixLists
    /\ groupsInAccount \in GroupLists
    /\ allGroups = <<>> /\ subscribed = <<>> /\ unsubscribed = <<>>
    /\ IdleShip /\ IdleCall

\* a rejected await of lines 48, 53, 62 or 67 rejects the invocation
AwaitRejects ==
    /\ spc \in {"updating", "listing", "subscribing", "unsubscribing"}
    /\ spc' = "failed"
    /\ UNCHANGED <<lambdaArn, logNamePrefixes, groupsInAccount, allGroups, subscribed, unsubscribed>>
    /\ UNCHANGED shipVars /\ UNCHANGED callVars

\* line 48: updateStructuredFieldsData(...) is called
UpdateStructuredFieldsData ==
    /\ spc = "start"
    /\ spc' = "updating"
    /\ UNCHANGED <<lambdaArn, logNamePrefixes, groupsInAccount, allGroups, subscribed, unsubscribed>>
    /\ UNCHANGED shipVars /\ UNCHANGED callVars

\* line 53: the update resolved; getCloudWatchLogGroups(...) is called
GetCloudWatchLogGroups ==
    /\ spc = "updating"
    /\ spc' = "listing"
    /\ UNCHANGED <<lambdaArn, logNamePrefixes, groupsInAccount, allGroups, subscribed, unsubscribed>>
    /\ UNCHANGED shipVars /\ UNCHANGED callVars

\* lines 53-62: the list resolved; subscribeGroups is called with the
\* eligible groups
SubscribeGroups ==
    /\ spc = "listing"
    /\ allGroups' = groupsInAccount
    /\ subscribed' = Append(subscribed, logShippingGroups(allGroups', logNamePrefixes, lambdaArn))
    /\ spc' = "subscribing"
    /\ UNCHANGED <<lambdaArn, logNamePrefixes, groupsInAccount, unsubscribed>>
    /\ UNCHANGED shipVars /\ UNCHANGED callVars

\* lines 64-67: subscribeGroups resolved; unsubscribeGroups is called with
\* the other groups
UnsubscribeGroups ==
    /\ spc = "subscribing"
    /\ unsubscribed' = Append(unsubscribed, removeShippingGroups(allGroups, logNamePrefixes, lambdaArn))
    /\ spc' = "unsubscribing"
    /\ UNCHANGED <<lambdaArn, logNamePrefixes, groupsInAccount, allGroups, subscribed>>
    /\ UNCHANGED shipVars /\ UNCHANGED callVars

\* unsubscribeGroups resolved
ShippingDone ==
    /\ spc = "unsubscribing"
    /\ spc' = "done"
    /\ UNCHANGED <<lambdaArn, logNamePrefixes, groupsInAccount, allGroups, subscribed, unsubscribed>>
    /\ UNCHANGED shipVars /\ UNCHANGED callVars

NextShipping ==
    \/ UpdateStructuredFieldsData
    \/ GetCloudWatchLogGroups
    \/ SubscribeGroups
    \/ UnsubscribeGroups
    \/ ShippingDone
    \/ AwaitRejects

SpecShipping == InitShipping /\ [][NextShipping]_vars

----------------------------------------------------------------------------
(* Properties of createStructuredLog, checked under SpecLog                *)

\* the trimmed line of the call, its parsed properties and the record as it
\* stands before the supplemental fields are applied
CallLine == Trim(callEvent.message)
CallParsedProps == PropsOf(callParsed.val)
CallPublishable == Publishable(LogGroupName, callEvent, callParsed.val)

SupplementalKeys(fields) == {fields[i].k : i \in 1..Len(fields)}

\* every order in which the keys of a mapping can be applied
Orderings(fields) ==
    LET n == Len(fields)
        perms == {p \in [1..n -> 1..n] : \A i, j \in 1..n : p[i] = p[j] => i = j}
    IN  {[i \in 1..n |-> fields[p[i]]] : p \in perms}

\* not undefined, not null and not the empty string
NonEmpty(v) == v.t \notin {"undefined", "null"} /\ ~(v.t = "string" /\ v.s = <<>>)

\* C1: whenever createStructuredLog returns, every supplemental key at which
\* the record held a value before enrichment (of any kind, falsy ones
\* included) holds the supplemental value, and overwrittenFields.<key> holds
\* the value from before enrichment.
C1_OverwrittenValueKept ==
    call = "returned" =>
        \A i \in 1..Len(callFields) :
            LET k == callFields[i].k
            IN  Has(CallPublishable, k) =>
                    /\ callResult[k] = callFields[i].v
                    /\ Has(callResult, OverwrittenPrefix \o k)
                    /\ callResult[OverwrittenPrefix \o k] = CallPublishable[k]

\* C9: the enriched record is the same for every order of the supplemental
\* keys: each key holds its supplemental value and each overwrittenFields
\* entry holds the value the record had at that key before enrichment.
C9_OrderIndependent ==
    call = "returned" =>
        \A fields \in Orderings(callFields) :
            LET r == Enrich(CallPublishable, fields)
            IN  /\ r = callResult
                /\ \A i \in 1..Len(fields) :
                      /\ r[fields[i].k] = fields[i].v
                      /\ Has(CallPublishable, fields[i].k) =>
                            /\ Has(r, OverwrittenPrefix \o fields[i].k)
                            /\ r[OverwrittenPrefix \o fields[i].k] = CallPublishable[fields[i].k]

\* C3 as stated: every returned record has a non-empty '@timestamp', which
\* is the parsed record's timestamp when it has one and otherwise the ISO
\* rendering of the event's timestamp, for every supplemental mapping.
C3_TimestampAsStated ==
    call = "returned" =>
        /\ Has(callResult, <<"@", "t", "i", "m", "e", "s", "t", "a", "m", "p">>)
        /\ NonEmpty(callResult[<<"@", "t", "i", "m", "e", "s", "t", "a", "m", "p">>])
        /\ callResult[<<"@", "t", "i", "m", "e", "s", "t", "a", "m", "p">>] =
              IF Has(CallParsedProps, <<"t", "i", "m", "e", "s", "t", "a", "m", "p">>) THEN CallParsedProps[<<"t", "i", "m", "e", "s", "t", "a", "m", "p">>]
              ELSE JsString(ToISOString(callEvent.timestamp))

\* C3 amended: every returned record has an '@timestamp'.  When the
\* supplemental mapping has no '@timestamp' key it is non-empty: the parsed
\* record's timestamp when that is truthy, else the ISO rendering of the
\* event's timestamp.  A supplemental '@timestamp' replaces it.
C3_TimestampPresent ==
    call = "returned" =>
        /\ Has(callResult, <<"@", "t", "i", "m", "e", "s", "t", "a", "m", "p">>)
        /\ \A i \in 1..Len(callFields) :
              callFields[i].k = <<"@", "t", "i", "m", "e", "s", "t", "a", "m", "p">> => callResult[<<"@", "t", "i", "m", "e", "s", "t", "a", "m", "p">>] = callFields[i].v
        /\ <<"@", "t", "i", "m", "e", "s", "t", "a", "m", "p">> \notin SupplementalKeys(callFields) =>
              /\ NonEmpty(callResult[<<"@", "t", "i", "m", "e", "s", "t", "a", "m", "p">>])
              /\ callResult[<<"@", "t", "i", "m", "e", "s", "t", "a", "m", "p">>] =
                    IF Has(CallParsedProps, <<"t", "i", "m", "e", "s", "t", "a", "m", "p">>) /\ Truthy(CallParsedProps[<<"t", "i", "m", "e", "s", "t", "a", "m", "p">>])
                    THEN CallParsedProps[<<"t", "i", "m", "e", "s", "t", "a", "m", "p">>]
                    ELSE JsString(ToISOString(callEvent.timestamp))

\* a record returned for a line whose parsed timestamp is falsy, enriched by
\* a non-empty mapping without '@timestamp': the ISO rendering is used
C3_Witness ==
    /\ call = "returned"
    /\ Has(CallParsedProps, <<"t", "i", "m", "e", "s", "t", "a", "m", "p">>) /\ ~Truthy(CallParsedProps[<<"t", "i", "m", "e", "s", "t", "a", "m", "p">>])
    /\ callFields # <<>> /\ <<"@", "t", "i", "m", "e", "s", "t", "a", "m", "p">> \notin SupplementalKeys(callFields)
    /\ callResult[<<"@", "t", "i", "m", "e", "s", "t", "a", "m", "p">>] = JsString(<<"1", "9", "7", "0", "-", "0", "1", "-", "0", "1", "T", "0", "0", ":", "0", "0", ":", "0", "0", ".", "0", "0", "7", "Z">>)

\* the segments of a line as parseNodeLogFormat sees them
NodeElements(line) == Split(line, "\t")
IsNodeLogLine(line) == Len(NodeElements(line)) >= 4 /\ IsDate(NodeElements(line)[1])

\* C4: once parseLambdaLogLine has run on a line, a lifecycle line has
\* yielded the lifecycle record with the raw line under message; otherwise a
\* line of four or more tab segments led by a date has yielded the
\* tab-delimited record; otherwise the result is the parsed JSON mapping or
\* exactly { message: line }.
C4_ParserPriority ==
    call # "called" =>
        IF isRequestLogEntry(CallLine) THEN
            /\ ~callParsed.threw
            /\ callParsed.val.t = "object"
            /\ Has(callParsed.val.o, <<"l", "a", "m", "b", "d", "a", "E", "v", "e", "n", "t">>)
            /\ Has(callParsed.val.o, <<"l", "a", "m", "b", "d", "a", "S", "t", "a", "t", "s">>)
            /\ callParsed.val.o[<<"m", "e", "s", "s", "a", "g", "e">>] = JsString(CallLine)
        ELSE IF IsNodeLogLine(CallLine) THEN
            /\ ~callParsed.threw
            /\ callParsed.val.t = "object"
            /\ callParsed.val.o[<<"l", "a", "m", "b", "d", "a", "R", "e", "q", "u", "e", "s", "t", "I", "d">>] = JsString(NodeElements(CallLine)[2])
            /\ callParsed.val.o[<<"l", "e", "v", "e", "l">>] = JsString(NodeElements(CallLine)[3])
        ELSE
            /\ ~callParsed.threw
            /\ callParsed.val.t = "object"
            /\ IF JsonParse(CallLine).ok THEN callParsed.val = JsonParse(CallLine).val
               ELSE callParsed.val = JsObject(Put(NoProps, <<"m", "e", "s", "s", "a", "g", "e">>, JsString(CallLine)))

\* the parts of a REPORT segment as C5 describes them: the name before the
\* first colon, the raw value after it, and the tokens of that value
SegmentName(seg) == Trim(SubSeq(seg, 1, IndexOf(seg, <<":">>)))
SegmentValue(seg) == Trim(SubstrFrom(seg, IndexOf(seg, <<":">>) + 1))
SegmentTokens(seg) == Split(SegmentValue(seg), " ")
SegmentUnit(seg) == SegmentTokens(seg)[Len(SegmentTokens(seg))]
SegmentBaseName(seg) ==
    LET n == SelectSeq(SegmentName(seg), LAMBDA c : c # " ")
    IN  IF n = <<>> THEN n ELSE <<ToLowerCase(n[1])>> \o SubstrFrom(n, 1)
ReportSegments(line) ==
    SelectSeq(MapSeq(Trim, Tail(Split(line, "\t"))), LAMBDA s : Len(s) > 0 /\ IndexOf(s, <<":">>) >= 0)

\* C5: once a REPORT line is parsed without an exception, each non-empty segment "Name: value
\* [unit]" after the first has given one field of lambdaStats: named base
\* name + unit and holding the number when the value's trailing token is ms
\* or MB, else named by the base name and holding everything after the first
\* colon, trimmed.
C5_ReportFields ==
    (call # "called" /\ ~callParsed.threw /\ StartsWith(CallLine, <<"R", "E", "P", "O", "R", "T", " ", "R", "e", "q", "u", "e", "s", "t", "I", "d", ":", " ">>)) =>
        \A i \in 1..Len(ReportSegments(CallLine)) :
              LET seg   == ReportSegments(CallLine)[i]
                  stats == callParsed.val.o[<<"l", "a", "m", "b", "d", "a", "S", "t", "a", "t", "s">>].o
              IN  IF Len(SegmentTokens(seg)) >= 2 /\ SegmentUnit(seg) \in {<<"m", "s">>, <<"M", "B">>}
                  THEN /\ Has(stats, SegmentBaseName(seg) \o SegmentUnit(seg))
                       /\ stats[SegmentBaseName(seg) \o SegmentUnit(seg)].t \in {"number", "NaN"}
                       /\ stats[SegmentBaseName(seg) \o SegmentUnit(seg)] = ParseFloat(SegmentTokens(seg)[1])
                  ELSE /\ Has(stats, SegmentBaseName(seg))
                       /\ stats[SegmentBaseName(seg)] = JsString(SegmentValue(seg))

----------------------------------------------------------------------------
(* Properties of shipLogEntries, checked under Spec                        *)

DecodeFails == payload.kind \in {"base64", "gunzip", "json"}

\* C2: no line of a decoded batch makes the invocation fail: the only
\* failure left after a successful decode is the publisher's.
C2_NoLineIsFatal ==
    (payload.kind = "ok" /\ pc = "failed") => failure = "publish"

\* C6: when the lookup has failed, the invocation is not failed by it: once
\* it has moved past the transform, the publisher has been called with one
\* record per event, each built with the empty mapping.
C6_LookupFailureTolerated ==
    (payload.kind = "ok" /\ fetchFailed /\ pc \in {"publishing", "done", "failed"}) =>
        /\ extraFields = <<>>
        /\ Len(published) = 1
        /\ Len(published[1]) = Len(logEvents)
        /\ \A i \in 1..Len(logEvents) :
              published[1][i] = createStructuredLog(logGroup, logEvents[i], <<>>).val

\* C7: the stages run strictly forward.  The lookup is issued at most once
\* and only after a successful decode; no record is built before it has
\* settled; the publisher is called at most once, only with all records
\* built, and nothing is built afterwards; a failed decode fails the
\* invocation with neither call issued.
C7_StagesInOrder ==
    /\ fetchCalls <= 1 /\ Len(published) <= 1
    /\ fetchCalls = 1 => ~DecodeFails /\ pc # "start"
    /\ pc \in {"mapping", "publishing", "done"} => fetchCalls = 1
    /\ (structuredLogs # <<>> \/ published # <<>>) =>
          fetchCalls = 1 /\ pc \in {"mapping", "publishing", "done", "failed"}
    /\ published # <<>> =>
          /\ Len(structuredLogs) = Len(logEvents)
          /\ published[1] = structuredLogs
          /\ pc \in {"publishing", "done", "failed"}
    /\ pc \in {"publishing", "done"} => Len(published) = 1
    /\ DecodeFails => fetchCalls = 0 /\ published = <<>> /\ pc \in {"start", "failed"}
    /\ (DecodeFails /\ pc = "failed") => failure = "decode"

\* an invocation that has completed: one lookup, then two records, then one
\* publisher call
C7_Witness ==
    /\ pc = "done" /\ fetchCalls = 1 /\ Len(published) = 1
    /\ Len(logEvents) = 2 /\ Len(structuredLogs) = 2

\* C8: every publisher call receives as many records as the batch has
\* events, the i-th built from the i-th event.
C8_OrderPreserved ==
    \A j \in 1..Len(published) :
        /\ Len(published[j]) = Len(logEvents)
        /\ \A i \in 1..Len(logEvents) :
              /\ published[j][i] = createStructuredLog(logGroup, logEvents[i], extraFields).val
              /\ <<"c", "l", "o", "u", "d", "w", "a", "t", "c", "h", "I", "d">> \notin SupplementalKeys(extraFields) =>
                    published[j][i][<<"c", "l", "o", "u", "d", "w", "a", "t", "c", "h", "I", "d">>] = JsString(logEvents[i].id)

\* a published batch of two different events
C8_Witness ==
    /\ pc = "done" /\ Len(published) = 1 /\ Len(logEvents) = 2
    /\ logEvents[1].id # logEvents[2].id
    /\ published[1][1][<<"c", "l", "o", "u", "d", "w", "a", "t", "c", "h", "I", "d">>] = JsString(logEvents[1].id)
    /\ published[1][2][<<"c", "l", "o", "u", "d", "w", "a", "t", "c", "h", "I", "d">>] = JsString(logEvents[2].id)

----------------------------------------------------------------------------
(* Properties of setLogShipping, checked under SpecShipping                *)

Range(seq) == {seq[i] : i \in 1..Len(seq)}

OwnLogGroup == logShippingLambdaLogGroupName(lambdaArn)

\* the two calls were made, and their arguments split allGroups in two
BothCallsPartition ==
    /\ Len(subscribed) = 1 /\ Len(unsubscribed) = 1
    /\ Range(subscribed[1]) \cup Range(unsubscribed[1]) = Range(allGroups)
    /\ Range(subscribed[1]) \cap Range(unsubscribed[1]) = {}
    /\ Len(subscribed[1]) + Len(unsubscribed[1]) = Len(allGroups)

\* C10 as stated: once both calls are made their arguments partition the
\* list of log groups, and the shipping function's own log group is in the
\* unsubscribe set and not in the subscribe set.
C10_PartitionAsStated ==
    spc \in {"unsubscribing", "done"} =>
        /\ BothCallsPartition
        /\ OwnLogGroup \in Range(unsubscribed[1])
        /\ OwnLogGroup \notin Range(subscribed[1])

\* C10 amended: once both calls are made their arguments partition the list
\* of log groups; the shipping function's own log group is never in the
\* subscribe set, and is in the unsubscribe set whenever the account has it.
C10_Partition ==
    /\ Len(subscribed) <= 1 /\ Len(unsubscribed) <= 1
    /\ \A j \in 1..Len(subscribed) : OwnLogGroup \notin Range(subscribed[j])
    /\ spc \in {"unsubscribing", "done"} =>
          /\ BothCallsPartition
          /\ OwnLogGroup \in Range(allGroups) <=> OwnLogGroup \in Range(unsubscribed[1])

\* no prefixes configured, the own log group among three: the other two are
\* subscribed
C10_Witness ==
    /\ spc = "done" /\ logNamePrefixes = <<>>
    /\ Len(allGroups) = 3 /\ OwnLogGroup \in Range(allGroups)
    /\ Len(subscribed[1]) = 2 /\ unsubscribed[1] = <<OwnLogGroup>>
====
